---- MODULE Spec2Model ----
(***************************************************************************)
(* autoflags: struct-tag driven flag binding.                              *)
(*                                                                         *)
(* The model follows the package source: the tag parser (getTag,           *)
(* parseTag), the path context kept in FlagConfig.parent (parseTag pushes, *)
(* tryStepOut pops) and the two field walkers bindFlags / readFlags with   *)
(* their struct, pointer and slice helpers.  Text is modelled as sequences *)
(* of one-character strings so that splitting, trimming, joining and the   *)
(* escape handling of getTag are computed character by character.          *)
(***************************************************************************)
EXTENDS Integers, Sequences, FiniteSets, TLC

VARIABLES
    v0,      \* the value handed to BindFlags / ReadFlags: [kind, typ]
    opts,    \* the option values the caller passes (FlagOption list)
    cfg,     \* the FlagConfig of the current walk (defaultFlagConfig(opts))
    mode,    \* "idle", "bind", "read" or "panic"
    stack,   \* call stack of bindFlags/readFlags frames: [typ, i, via, tag]
    err,     \* the error being returned up the call chain, or NoErr
    tag,     \* the walker's local tag: the field last parsed and its tagData
    flags,   \* the flag set of the command: registrations in order
    reads,   \* the viper lookups of the read walk, in order
    result,  \* what each top-level call returned: [bind |-> r, read |-> r]
    probe,   \* the field of the struct type Probe, whose tag text varies
    cmd      \* the cobra command: its PreRun / PreRunE hooks and what it ran

vars == <<v0, opts, cfg, mode, stack, err, tag, flags, reads, result, probe, cmd>>

----------------------------------------------------------------------------
(* Bounds of the model *)

\* number of label tokens that follow the first token of a probe tag
MaxLabels == 2

----------------------------------------------------------------------------
(* Text *)

s_flag == <<"f", "l", "a", "g">>
s_short == <<"s", "h", "o", "r", "t">>
s_desc == <<"d", "e", "s", "c">>
s_default == <<"d", "e", "f", "a", "u", "l", "t">>
s_squash == <<"s", "q", "u", "a", "s", "h">>

TagName == s_flag
TagLabelShort == s_short
TagLabelDesc == s_desc
TagLabelDefault == s_default
TagLabelSquash == s_squash
TagLabelSkip == <<"-">>
TagLabelSep == ","

\* the escape marker tested by getTag
Escape == "\\"

\* unicode.ToLower on the letters the field identifiers use
ToLowerChar(c) ==
    CASE c = "A" -> "a" [] c = "B" -> "b" [] c = "C" -> "c" [] c = "D" -> "d"
      [] c = "F" -> "f" [] c = "H" -> "h" [] c = "I" -> "i" [] c = "L" -> "l"
      [] c = "M" -> "m" [] c = "N" -> "n" [] c = "O" -> "o" [] c = "P" -> "p"
      [] c = "S" -> "s"
      [] c = "T" -> "t" [] c = "X" -> "x"
      [] OTHER -> c

\* strings.ToLower
ToLower(s) == [k \in 1..Len(s) |-> ToLowerChar(s[k])]

RECURSIVE TrimLeft(_)
TrimLeft(s) == IF s # <<>> /\ Head(s) = " " THEN TrimLeft(Tail(s)) ELSE s

RECURSIVE TrimRight(_)
TrimRight(s) ==
    IF s # <<>> /\ s[Len(s)] = " " THEN TrimRight(SubSeq(s, 1, Len(s) - 1)) ELSE s

\* strings.TrimSpace
TrimSpace(s) == TrimRight(TrimLeft(s))

RECURSIVE SplitAcc(_, _, _, _)
SplitAcc(s, sep, cur, acc) ==
    IF s = <<>> THEN Append(acc, cur)
    ELSE IF Head(s) = sep THEN SplitAcc(Tail(s), sep, <<>>, Append(acc, cur))
    ELSE SplitAcc(Tail(s), sep, Append(cur, Head(s)), acc)

\* strings.Split with a one-character separator: always at least one token
Split(s, sep) == SplitAcc(s, sep, <<>>, <<>>)

RECURSIVE Join(_, _)
\* strings.Join
Join(l, sep) ==
    IF l = <<>> THEN <<>>
    ELSE IF Len(l) = 1 THEN l[1]
    ELSE l[1] \o <<sep>> \o Join(Tail(l), sep)

\* a Go map[string]string: a missing key reads as ""
MapGet(m, k) == IF k \in DOMAIN m THEN m[k] ELSE <<>>

MapPut(m, k, v) == [x \in (DOMAIN m) \cup {k} |-> IF x = k THEN v ELSE m[x]]

EmptyMap == [x \in {} |-> <<>>]

----------------------------------------------------------------------------
(* Struct fields (reflect.StructField together with the field's value) *)

\* Kind: reflect.Kind of the field; Elem: kind of the slice element or of the
\* pointee; Typ: the struct type of a struct or pointer-to-struct field;
\* Nil: a pointer field holding nil; Tag: the struct tag, key -> value.
Field(name, tagmap, kind, elem, typ, exported, isNil) ==
    [Name |-> name, Tag |-> tagmap, Kind |-> kind, Elem |-> elem, Typ |-> typ,
     Exported |-> exported, Nil |-> isNil]

NoField == Field(<<>>, EmptyMap, "Invalid", "Invalid", "none", FALSE, FALSE)

\* a struct tag `flag:"value"`
FlagTag(value) == (TagName :> value)

\* the text of a tag from its tokens, written with the default separator
TagText(tokens) == Join(tokens, TagLabelSep)

Label(key, value) == key \o <<":">> \o value

s_name == <<"n", "a", "m", "e">>
s_age == <<"a", "g", "e">>
s_addr == <<"a", "d", "d", "r">>
s_18 == <<"1", "8">>

Scalar(name, kind, text) == Field(name, FlagTag(text), kind, "Invalid", "none", TRUE, FALSE)

Struct(name, tagmap, typ) == Field(name, tagmap, "Struct", "Invalid", typ, TRUE, FALSE)

Pointer(name, tagmap, elem, typ, isNil) == Field(name, tagmap, "Pointer", elem, typ, TRUE, isNil)

f_Name == Scalar(<<"N", "a", "m", "e">>, "String", s_name)
f_Age == Scalar(<<"A", "g", "e">>, "Int", TagText(<<s_age, Label(s_default, s_18)>>))
f_Addr == Scalar(<<"A", "d", "d", "r">>, "String", s_addr)

\* README: type Config struct { Name `flag:"name,short:N,default:..,desc:.."`; Age ... }
t_Config ==
    << Scalar(<<"N", "a", "m", "e">>, "String",
              TagText(<<s_name, Label(s_short, <<"N">>), Label(s_default, <<"x">>),
                        Label(s_desc, <<"y", "o", "u", "r", " ", "n", "a", "m", "e">>)>>)),
       Scalar(<<"A", "g", "e">>, "Int",
              TagText(<<s_age, Label(s_short, <<"A">>), Label(s_default, s_18),
                        Label(s_desc, <<"y", "o", "u", "r", " ", "a", "g", "e">>)>>)) >>

\* struct { Name string `flag:"name,default:x"`; Age int `flag:"age,default:18"` }
t_Pair ==
    << Scalar(<<"N", "a", "m", "e">>, "String", TagText(<<s_name, Label(s_default, <<"x">>)>>)),
       f_Age >>

\* type Child struct { Name string `flag:"name"` }
t_Child == << f_Name >>

\* type Base struct { Age int `flag:"age,default:18"` }
t_Base == << f_Age >>

\* struct { Child struct{...}; Addr string `flag:"addr"` }
t_Nested == << Struct(<<"C", "h", "i", "l", "d">>, EmptyMap, "Child"), f_Addr >>

\* README: type Config struct { Child; Base `flag:",squash"`; Addr string `flag:"addr"` }
t_Readme ==
    << Struct(<<"C", "h", "i", "l", "d">>, EmptyMap, "Child"),
       Struct(<<"B", "a", "s", "e">>, FlagTag(TagText(<<<<>>, s_squash>>)), "Base"),
       f_Addr >>

\* a squashed struct field below a non-squashed one: struct { O Readme `flag:"o"` }
t_Mixed == << Struct(<<"O">>, FlagTag(<<"o">>), "Readme") >>

\* three levels: Top { A Mid `a`; Addr } ; Mid { B Leaf `b`; Age } ; Leaf { Name }
t_Deep == << Struct(<<"A">>, FlagTag(<<"a">>), "Mid"), f_Addr >>
t_Mid == << Struct(<<"B">>, FlagTag(<<"b">>), "Child"), f_Age >>

\* the same with a map-typed field two levels down
t_DeepBad == << Struct(<<"A">>, FlagTag(<<"a">>), "MidBad"), f_Addr >>
t_MidBad == << Struct(<<"B">>, FlagTag(<<"b">>), "LeafBad"), f_Age >>
t_LeafBad ==
    << f_Name,
       Field(<<"M">>, FlagTag(<<"m">>), "Map", "String", "none", TRUE, FALSE),
       f_Age >>

\* a non-nil and a nil pointer to struct, and a pointer to int
t_Ptr == << Pointer(<<"P">>, FlagTag(<<"p">>), "Struct", "Child", FALSE), f_Addr >>
t_PtrNil == << f_Name, Pointer(<<"P">>, FlagTag(<<"p">>), "Struct", "Child", TRUE), f_Addr >>
t_PtrInt == << f_Name, Pointer(<<"P">>, FlagTag(<<"p">>), "Int", "none", FALSE), f_Addr >>

\* a nil pointer below a non-squashed struct field
t_DeepNil == << Struct(<<"A">>, FlagTag(<<"a">>), "PtrNil"), f_Addr >>

\* a pointer to int below a non-squashed struct field
t_DeepPtrInt == << Struct(<<"A">>, FlagTag(<<"a">>), "PtrInt"), f_Addr >>

\* an unexported field, and fields tagged `-`
t_Hidden ==
    << Field(<<"h">>, FlagTag(<<"h">>), "String", "Invalid", "none", FALSE, FALSE), f_Addr >>
t_Skip ==
    << Scalar(<<"I">>, "String", TagLabelSkip),
       Struct(<<"S">>, FlagTag(TagLabelSkip), "Child"),
       f_Addr >>

\* []string, []int and a slice of another element kind
t_Slices ==
    << Field(<<"T">>, FlagTag(<<"t">>), "Slice", "String", "none", TRUE, FALSE),
       Field(<<"I">>, FlagTag(TagText(<<<<"i">>, Label(s_default, <<"1">>)>>)),
             "Slice", "Int", "none", TRUE, FALSE),
       Field(<<"B">>, FlagTag(<<"b">>), "Slice", "Bool", "none", TRUE, FALSE),
       f_Addr >>

\* type Probe struct { <probe>; Addr string `flag:"addr"` }
t_Probe == << probe, f_Addr >>

\* reflect.Type.Field(i) over the struct types of the model
Fields(typ) ==
    CASE typ = "Config" -> t_Config
      [] typ = "Pair" -> t_Pair
      [] typ = "Child" -> t_Child
      [] typ = "Base" -> t_Base
      [] typ = "Nested" -> t_Nested
      [] typ = "Readme" -> t_Readme
      [] typ = "Mixed" -> t_Mixed
      [] typ = "Deep" -> t_Deep
      [] typ = "Mid" -> t_Mid
      [] typ = "DeepBad" -> t_DeepBad
      [] typ = "MidBad" -> t_MidBad
      [] typ = "LeafBad" -> t_LeafBad
      [] typ = "Ptr" -> t_Ptr
      [] typ = "PtrNil" -> t_PtrNil
      [] typ = "PtrInt" -> t_PtrInt
      [] typ = "DeepNil" -> t_DeepNil
      [] typ = "DeepPtrInt" -> t_DeepPtrInt
      [] typ = "Hidden" -> t_Hidden
      [] typ = "Skip" -> t_Skip
      [] typ = "Slices" -> t_Slices
      [] typ = "Probe" -> t_Probe
      [] OTHER -> <<>>

\* reflect.Value.NumField
NumField(typ) == Len(Fields(typ))

----------------------------------------------------------------------------
(* Tag parsing *)

\* variant: every pointer field counts as one to step into
isStepIntoAnyPointer(field) ==
    \/ field.Kind = "Struct"
    \/ field.Kind = "Pointer"

isStepInto(field) ==
    \/ field.Kind = "Struct"
    \/ (field.Kind = "Pointer" /\ field.Elem = "Struct")

\* the outcomes of getTag: no settings (nil), a tagData, or a run-time panic
NilTag == [res |-> "nil"]
PanicTag == [res |-> "panic"]

\* variant: every field counts as carrying the key
LookupAlwaysOk(field, key) == [ok |-> TRUE, value |-> MapGet(field.Tag, key)]

\* field.Tag.Lookup(key)
Lookup(field, key) == [ok |-> key \in DOMAIN field.Tag, value |-> MapGet(field.Tag, key)]

RECURSIVE RejoinKeepingMarker(_, _, _, _)
\* variant: the escape marker is left in the joined token
RejoinKeepingMarker(names, i, j, sep) ==
    IF ~(i <= Len(names)) THEN [panic |-> FALSE, names |-> names, i |-> i]
    ELSE IF names[j] = <<>> THEN [panic |-> TRUE, names |-> names, i |-> i]
    ELSE IF names[j][Len(names[j])] # Escape
        THEN [panic |-> FALSE, names |-> names, i |-> i]
    ELSE IF i + 1 > Len(names) THEN [panic |-> TRUE, names |-> names, i |-> i]
    ELSE RejoinKeepingMarker([names EXCEPT
                                 ![j] = @ \o <<sep>> \o names[i + 1],
                                 ![i + 1] = <<>>],
                             i + 1, j, sep)

RECURSIVE Rejoin(_, _, _, _)
\* the inner loop of getTag: while names[j] ends with the escape marker, strip
\* it and glue the next token on with the separator; names[j][len-1] on an
\* empty token and names[i] past the end are index-out-of-range panics
Rejoin(names, i, j, sep) ==
    IF ~(i <= Len(names)) THEN [panic |-> FALSE, names |-> names, i |-> i]
    ELSE IF names[j] = <<>> THEN [panic |-> TRUE, names |-> names, i |-> i]
    ELSE IF names[j][Len(names[j])] # Escape
        THEN [panic |-> FALSE, names |-> names, i |-> i]
    ELSE IF i + 1 > Len(names) THEN [panic |-> TRUE, names |-> names, i |-> i]
    ELSE Rejoin([names EXCEPT
                    ![j] = SubSeq(@, 1, Len(@) - 1) \o <<sep>> \o names[i + 1],
                    ![i + 1] = <<>>],
                i + 1, j, sep)

\* variant: the value of a label ends at its second colon
StoreLabelUpToSecondColon(settings, token) ==
    LET values == Split(token, ":")
        k == TrimSpace(values[1])
    IN  IF Len(values) >= 2 THEN MapPut(settings, k, values[2])
        ELSE IF k # <<>> THEN MapPut(settings, k, k)
        ELSE settings

\* variant: the value of a label is trimmed like its key
StoreLabelTrimmingValue(settings, token) ==
    LET values == Split(token, ":")
        k == TrimSpace(values[1])
    IN  IF Len(values) >= 2 THEN MapPut(settings, k, TrimSpace(Join(Tail(values), ":")))
        ELSE IF k # <<>> THEN MapPut(settings, k, k)
        ELSE settings

\* one label token: split on ":", key trimmed, value everything after the
\* first colon; a token without colon stores itself unless it is empty
StoreLabel(settings, token) ==
    LET values == Split(token, ":")
        k == TrimSpace(values[1])
    IN  IF Len(values) >= 2 THEN MapPut(settings, k, Join(Tail(values), ":"))
        ELSE IF k # <<>> THEN MapPut(settings, k, k)
        ELSE settings

RECURSIVE ParseTokens(_, _, _, _)
\* the for loop of getTag over the tokens (i counts from 1 here)
ParseTokens(names, i, settings, c) ==
    IF i > Len(names) THEN [panic |-> FALSE, settings |-> settings]
    ELSE IF i = 1
        THEN ParseTokens(names, 2, MapPut(settings, c.tagName, TrimSpace(names[1])), c)
    ELSE LET r == Rejoin(names, i, i, c.tagLabelSep)
         IN  IF r.panic THEN [panic |-> TRUE, settings |-> settings]
             ELSE ParseTokens(r.names, r.i + 1, StoreLabel(settings, r.names[i]), c)

\* the flag name: the origin, prefixed by the path context when squash is off
PrefixedName(name, c) ==
    IF ~c.squash /\ Len(c.parent) > 0
        THEN Join(c.parent, ".") \o <<".">> \o name
        ELSE name

\* the tagData built from the settings map
TagData(field, settings, c) ==
    LET first == MapGet(settings, c.tagName)
        name == IF Len(first) = 0 THEN ToLower(field.Name) ELSE first
    IN  [res |-> "data",
         origin |-> name,
         Name |-> PrefixedName(name, c),
         Short |-> MapGet(settings, TagLabelShort),
         Desc |-> MapGet(settings, TagLabelDesc),
         Default |-> MapGet(settings, TagLabelDefault),
         squash |-> (TagLabelSquash \in DOMAIN settings) /\ isStepInto(field)]

getTag(field, c) ==
    LET l == Lookup(field, c.tagName)
    IN  IF c.ignoreUntaggedFields /\ ~l.ok THEN NilTag
        ELSE LET p == ParseTokens(Split(TrimSpace(l.value), c.tagLabelSep), 1, EmptyMap, c)
             IN  IF p.panic THEN PanicTag
                 ELSE IF MapGet(p.settings, c.tagName) = TagLabelSkip THEN NilTag
                 ELSE TagData(field, p.settings, c)

\* variant: the squash label of the field is not consulted
PushesPrefixIgnoringLabel(field, data, c) ==
    data.res = "data" /\ ~c.squash /\ isStepInto(field)

\* variant: the global squash setting is not consulted
PushesPrefixIgnoringGlobal(field, data, c) ==
    data.res = "data" /\ ~data.squash /\ isStepInto(field)

\* parseTag pushes the origin on the path context for a struct or
\* pointer-to-struct field that is not squashed
PushesPrefix(field, data, c) ==
    data.res = "data" /\ ~c.squash /\ ~data.squash /\ isStepInto(field)

parseTag(field, c) ==
    IF ~field.Exported THEN NilTag ELSE getTag(field, c)

\* variant: the push is made before the test for nil settings
parentAfterParseTagPushingFirst(field, data, c) ==
    IF data.res # "data"
        THEN (IF ~c.squash /\ isStepInto(field)
                 THEN Append(c.parent, ToLower(field.Name)) ELSE c.parent)
    ELSE IF PushesPrefix(field, data, c) THEN Append(c.parent, data.origin)
    ELSE c.parent

\* cfg.parent after parseTag(field, cfg) returned: nothing is pushed when it
\* returns nil
parentAfterParseTag(field, data, c) ==
    IF PushesPrefix(field, data, c) THEN Append(c.parent, data.origin) ELSE c.parent

\* cfg.parent after the deferred tryStepOut(field, cfg)
tryStepOut(field, c) ==
    IF Len(c.parent) = 0 THEN c.parent
    ELSE LET t == getTag(field, c)
             squash == c.squash \/ (t.res = "data" /\ t.squash)
         IN  IF squash THEN c.parent
             ELSE SubSeq(c.parent, 1, Len(c.parent) - 1)

----------------------------------------------------------------------------
(* Default values handed to the flag set *)

IsDigit(c) == c \in {"0", "1", "2", "3", "4", "5", "6", "7", "8", "9"}

DigitVal(c) ==
    CASE c = "0" -> 0 [] c = "1" -> 1 [] c = "2" -> 2 [] c = "3" -> 3 [] c = "4" -> 4
      [] c = "5" -> 5 [] c = "6" -> 6 [] c = "7" -> 7 [] c = "8" -> 8 [] c = "9" -> 9
      [] OTHER -> 0

RECURSIVE DecimalValue(_, _)
DecimalValue(s, acc) ==
    IF s = <<>> THEN acc ELSE DecimalValue(Tail(s), acc * 10 + DigitVal(Head(s)))

\* stringx.Atoi: strconv.ParseInt(v, 10, 64) with the error dropped: text that
\* is not an optionally signed run of digits gives 0
Atoi(v) ==
    LET signed == v # <<>> /\ Head(v) \in {"+", "-"}
        digits == IF signed THEN Tail(v) ELSE v
    IN  IF digits = <<>> \/ \E k \in 1..Len(digits) : ~IsDigit(digits[k]) THEN 0
        ELSE IF signed /\ Head(v) = "-" THEN 0 - DecimalValue(digits, 0)
        ELSE DecimalValue(digits, 0)

\* stringx.ToBool
ToBool(s) ==
    IF Len(s) = 0 THEN FALSE
    ELSE ToLower(s) = <<"t", "r", "u", "e">> \/ ToLower(s) = <<"t">>

\* stringx.AtoSlice(s, ","): one element per token of strings.Split
AtoSlice(s, sep) == LET ss == Split(s, sep) IN [k \in 1..Len(ss) |-> Atoi(ss[k])]

\* stringx.Split(s, ","): the trimmed tokens of the trimmed text
SplitTrim(s0, sep) == LET l == Split(TrimSpace(s0), sep) IN [k \in 1..Len(l) |-> TrimSpace(l[k])]

ScalarKinds == {"String", "Bool", "Int", "Int32", "Int64"}

\* the default value each case of bindFlags passes to the flag set
DefaultOf(field, t) ==
    CASE field.Kind = "String" -> t.Default
      [] field.Kind = "Bool" -> ToBool(t.Default)
      [] field.Kind \in {"Int", "Int32", "Int64"} -> Atoi(t.Default)
      [] field.Kind = "Slice" /\ field.Elem = "Int" -> AtoSlice(t.Default, ",")
      [] field.Kind = "Slice" /\ field.Elem = "String" -> SplitTrim(t.Default, ",")
      [] OTHER -> <<>>

\* one flagSet.XxxVarP call
Registration(typ, field, t) ==
    [Name |-> t.Name, Short |-> t.Short, Default |-> DefaultOf(field, t),
     Desc |-> t.Desc, Kind |-> field.Kind, typ |-> typ, fld |-> field.Name]

\* one viper.GetXxx(tag.Name) call with the field it is stored into
Reading(typ, field, t) ==
    [Name |-> t.Name, Kind |-> field.Kind, typ |-> typ, fld |-> field.Name]

----------------------------------------------------------------------------
(* Configuration *)

\* the option functions a caller may pass: WithSquashOption(false),
\* WithIgnoreUntaggedFieldsOption(true), WithTagNameOption("short") and
\* WithTagLabelSepOption(";"); opts is the set of those passed. The probe
\* struct is also walked with WithTagNameOption("squash"), "tagNameSquash".
OptionNames == {"squash", "ignoreUntaggedFields", "tagName", "tagLabelSep"}

OptionSets == SUBSET OptionNames

\* variant: squash defaults to false
defaultFlagConfigSquashOff(o) ==
    [tagName |-> IF "tagName" \in o THEN s_short
                 ELSE IF "tagNameSquash" \in o THEN s_squash
                 ELSE TagName,
     tagLabelSep |-> IF "tagLabelSep" \in o THEN ";" ELSE TagLabelSep,
     squash |-> FALSE,
     ignoreUntaggedFields |-> "ignoreUntaggedFields" \in o,
     autoUnMarshalFlag |-> "autoUnMarshal" \in o,
     preAutoUnMarshal |-> "preAutoUnMarshal" \in o,
     preAutoUnMarshalE |-> "preAutoUnMarshalE" \in o,
     parent |-> <<>>]

\* the defaults, then each option applied
defaultFlagConfig(o) ==
    [tagName |-> IF "tagName" \in o THEN s_short
                 ELSE IF "tagNameSquash" \in o THEN s_squash
                 ELSE TagName,
     tagLabelSep |-> IF "tagLabelSep" \in o THEN ";" ELSE TagLabelSep,
     squash |-> ~("squash" \in o),
     ignoreUntaggedFields |-> "ignoreUntaggedFields" \in o,
     autoUnMarshalFlag |-> "autoUnMarshal" \in o,
     preAutoUnMarshal |-> "preAutoUnMarshal" \in o,
     preAutoUnMarshalE |-> "preAutoUnMarshalE" \in o,
     parent |-> <<>>]

\* the options passed together with WithAutoUnMarshalOption()
\* and with it WithSquashOption(false), WithPreAutoUnMarshalOption(pre),
\* WithPreAutoUnMarshalEOption(preE)
AutoOptionSets ==
    { {"autoUnMarshal"} \cup o :
        o \in (SUBSET {"squash"}) \cup (SUBSET {"preAutoUnMarshal", "preAutoUnMarshalE"}) }

\* a command: each hook is nil, the caller's handler ("user"), or the closure
\* autoMarshalOption puts around it ("wrapped"); ran lists what Execute ran
Command(preRun, preRunE) ==
    [PreRun |-> preRun, PreRunE |-> preRunE, bound |-> FALSE, ran |-> <<>>]

Commands == { Command(p, e) : p \in {"nil", "user"}, e \in {"nil", "user"} }

\* autoMarshalOption(cmd, v0, opts...): without the option nothing; else the
\* PreRun hook is wrapped if there is one, else the PreRunE hook if there is
\* one, else nothing
autoMarshalOption(c, o) ==
    IF ~defaultFlagConfig(o).autoUnMarshalFlag THEN c
    ELSE IF c.PreRun # "nil" THEN [c EXCEPT !.PreRun = "wrapped"]
    ELSE IF c.PreRunE # "nil" THEN [c EXCEPT !.PreRunE = "wrapped"]
    ELSE c

\* what can go wrong inside the closure around PreRunE: nothing, the
\* pre-hook returns an error, UnmarshalFlags returns an error
Failures == {"none", "preE", "unmarshal"}

\* what a hook does when the command calls it. The closure around PreRun
\* calls the pre-hook of WithPreAutoUnMarshalOption if there is one,
\* UnmarshalFlags (its error dropped) and the handler; the closure around
\* PreRunE calls the pre-hook of WithPreAutoUnMarshalEOption if there is one,
\* UnmarshalFlags and the handler, returning at the first error.
Hook(h, name, c, fail) ==
    IF h = "user" THEN << name >>
    ELSE IF h # "wrapped" THEN <<>>
    ELSE IF name = "PreRun"
        THEN (IF c.preAutoUnMarshal THEN << "preAutoUnMarshal" >> ELSE <<>>)
             \o << "UnmarshalFlags", name >>
    ELSE IF c.preAutoUnMarshalE /\ fail = "preE" THEN << "preAutoUnMarshalE" >>
    ELSE (IF c.preAutoUnMarshalE THEN << "preAutoUnMarshalE" >> ELSE <<>>)
         \o (IF fail = "unmarshal" THEN << "UnmarshalFlags" >>
                                   ELSE << "UnmarshalFlags", name >>)

\* the hook returned nil: it has none, or it got as far as the handler
Passed(events, name) == events = <<>> \/ events[Len(events)] = name

----------------------------------------------------------------------------
(* Errors and results *)

NoErr == [kind |-> "none", field |-> <<>>]

Err(kind, name) == [kind |-> kind, field |-> name]

NoResult == [st |-> "none", err |-> NoErr, parent |-> <<>>]

\* fValue.Type().Elem().Name() of a slice field
ElemTypeName(field) ==
    CASE field.Elem = "Bool" -> <<"b", "o", "o", "l">>
      [] field.Elem = "String" -> <<"s", "t", "r", "i", "n", "g">>
      [] field.Elem = "Int" -> <<"i", "n", "t">>
      [] OTHER -> <<>>

\* variant: the pointer is not tested for nil
pointerCheckWithoutNil(field) ==
    IF field.Elem # "Struct" THEN Err("UnsupportedType", field.Name) ELSE NoErr

\* the two checks at the head of bindPointer and of readPointer: a nil pointer
\* and a pointer to anything but a struct are errors naming the field
pointerCheck(field) ==
    IF field.Nil THEN Err("NilPointer", field.Name)
    ELSE IF field.Elem # "Struct" THEN Err("UnsupportedType", field.Name)
    ELSE NoErr

----------------------------------------------------------------------------
(* Inputs *)

\* first tokens and label tokens of the probe tag
FirstTokens == { <<>>, TagLabelSkip, s_name, <<" ", "n", " ">> }

LabelTokens ==
    { Label(s_short, <<"N">>),
      Label(s_desc, <<"D">>),
      Label(s_default, <<"V">>),
      Label(s_default, <<":", "1">>),
      Label(s_desc, <<"u", ":", "U">>),
      Label(s_flag, <<"x">>),
      Label(s_desc, <<"a", Escape>>),
      s_squash,
      <<>> }

RECURSIVE TokenLists(_)
\* the lists of at most n label tokens
TokenLists(n) ==
    IF n = 0 THEN { <<>> }
    ELSE TokenLists(n - 1) \cup
         { Append(l, t) : l \in { x \in TokenLists(n - 1) : Len(x) = n - 1 }, t \in LabelTokens }

ProbeTexts == { TagText(<<f>> \o l) : f \in FirstTokens, l \in TokenLists(MaxLabels) }

\* tags with at most one label
ShortTexts == { TagText(<<f>> \o l) : f \in FirstTokens, l \in TokenLists(1) }

\* values of the labels of a full-form tag: no separator and no colon
LabelValues == { <<"N">>, <<>>, <<"y", " ">>, <<"a", Escape>> }

\* name,short:X,desc:D,default:V
FullFormTexts ==
    { TagText(<<f, Label(s_short, x), Label(s_desc, d), Label(s_default, v)>>) :
        f \in FirstTokens, x \in LabelValues, d \in LabelValues, v \in LabelValues }

\* the probe field X: a string or a struct field, tagged `flag:"..."`,
\* tagged `short:"..."` or not tagged
ProbeFields ==
    { Field(<<"X">>, FlagTag(text), "String", "Invalid", "none", TRUE, FALSE) :
        text \in ProbeTexts \cup FullFormTexts }
    \cup { Field(<<"X">>, FlagTag(text), "Struct", "Invalid", "Child", TRUE, FALSE) :
             text \in ShortTexts }
    \cup { Field(<<"X">>, (s_short :> text), "String", "Invalid", "none", TRUE, FALSE) :
             text \in FullFormTexts \cup ShortTexts }
    \cup { Field(<<"X">>, EmptyMap, "String", "Invalid", "none", TRUE, FALSE) }

\* the options passed when the target is the Probe struct
ProbeOptionSets == (SUBSET {"tagName", "ignoreUntaggedFields"}) \cup { {"squash"} }

\* the options passed with a given probe field: under WithTagNameOption a
\* field tagged `flag:"..."` is an untagged field whatever the text is, so
\* that option goes with the short texts only
ProbeOptionsFor(f) ==
    IF TagName \in DOMAIN f.Tag /\ f.Tag[TagName] \notin ShortTexts
        THEN { o \in ProbeOptionSets : "tagName" \notin o }
    ELSE IF f.Kind = "Struct"
        THEN ProbeOptionSets \cup { {"tagNameSquash"}, {"tagNameSquash", "squash"} }
    ELSE ProbeOptionSets

Roots ==
    { "Config", "Pair", "Nested", "Readme", "Mixed", "Deep", "DeepBad", "Ptr", "PtrNil",
      "PtrInt", "DeepNil", "DeepPtrInt", "Hidden", "Skip", "Slices", "Probe" }

\* what a caller may hand to BindFlags / ReadFlags: a pointer to a struct, an
\* untyped nil, a struct value, a pointer to an int, a nil pointer to a struct
Targets ==
    { [kind |-> "ptrStruct", typ |-> r] : r \in Roots }
    \cup { [kind |-> k, typ |-> "Config"] : k \in {"nil", "struct", "ptrInt", "nilPtr"} }

\* the target with which the hooks of the command and the auto-unmarshal
\* option vary
CommandTarget == [kind |-> "ptrStruct", typ |-> "Config"]

----------------------------------------------------------------------------
(* State machine *)

TagOf(typ, field, t) == [typ |-> typ, fld |-> field.Name, data |-> t]

NoTag == [typ |-> "none", fld |-> <<>>, data |-> NilTag]

Init ==
    /\ v0 \in Targets
    /\ probe \in (IF v0.typ = "Probe" THEN ProbeFields ELSE { f_Name })
    /\ opts \in (IF v0.typ = "Probe" THEN ProbeOptionsFor(probe)
                 ELSE IF v0 = CommandTarget THEN OptionSets \cup AutoOptionSets
                 ELSE OptionSets)
    /\ cmd \in (IF v0 = CommandTarget THEN Commands ELSE { Command("nil", "nil") })
    /\ cfg = defaultFlagConfig(opts)
    /\ mode = "idle"
    /\ stack = <<>>
    /\ err = NoErr
    /\ tag = NoTag
    /\ flags = <<>>
    /\ reads = <<>>
    /\ result = [bind |-> NoResult, read |-> NoResult]

Top == stack[Len(stack)]

\* variant: the loop starts at the second field
FrameFromSecond(typ, via, t) == [typ |-> typ, i |-> 2, via |-> via, tag |-> t]

\* a bindFlags/readFlags activation: the struct walked, the loop index, and
\* the field (with its tagData) through which bindStruct/bindPointer entered
Frame(typ, via, t) == [typ |-> typ, i |-> 1, via |-> via, tag |-> t]

\* the walker on top of the stack is at a field of its loop
AtField(m) ==
    /\ mode = m
    /\ err = NoErr
    /\ stack # <<>>
    /\ Top.i <= NumField(Top.typ)

CurField == Fields(Top.typ)[Top.i]

\* i++ of the loop on top of the stack
Advance(st) == [st EXCEPT ![Len(st)].i = @ + 1]

Panic ==
    /\ mode' = "panic"
    /\ UNCHANGED <<cfg, stack, err, flags, reads, result>>

\* BindFlags(cmd, v0, opts...): defaultFlagConfig, then the entry of bindFlags.
\* reflect.TypeOf(nil).Kind(), Elem().Type() of a nil pointer and NumField()
\* of a non-struct panic.
BindFlagsCall ==
    /\ mode = "idle"
    /\ result.bind.st = "none"
    /\ cfg' = defaultFlagConfig(opts)
    /\ CASE v0.kind = "struct" ->
              /\ result' = [result EXCEPT !.bind =
                              [st |-> "error", err |-> Err("InvalidArgument", <<>>),
                               parent |-> <<>>]]
              /\ UNCHANGED <<mode, stack>>
         [] v0.kind = "ptrStruct" ->
              /\ mode' = "bind"
              /\ stack' = << Frame(v0.typ, NoField, NilTag) >>
              /\ UNCHANGED result
         [] OTHER ->
              /\ mode' = "panic"
              /\ UNCHANGED <<stack, result>>
    /\ cmd' = autoMarshalOption(cmd, opts)
    /\ UNCHANGED <<v0, opts, probe, err, tag, flags, reads>>

\* ReadFlags(v0, opts...): defaultFlagConfig, then the entry of readFlags, which
\* has no kind check: Elem() of anything but a pointer panics, and so do
\* Type() of the zero Value and NumField() of a non-struct.
ReadFlagsCall ==
    /\ mode = "idle"
    /\ result.read.st = "none"
    /\ cfg' = defaultFlagConfig(opts)
    /\ IF v0.kind = "ptrStruct"
          THEN /\ mode' = "read"
               /\ stack' = << Frame(v0.typ, NoField, NilTag) >>
          ELSE /\ mode' = "panic"
               /\ UNCHANGED stack
    /\ UNCHANGED <<v0, opts, probe, cmd, err, tag, flags, reads, result>>

\* the switch of bindFlags on the field's kind, after parseTag returned t and
\* left the path context c.parent
BindDispatch(field, t, c) ==
    CASE field.Kind \in ScalarKinds ->
            /\ flags' = Append(flags, Registration(Top.typ, field, t))
            /\ stack' = Advance(stack)
            /\ err' = NoErr
      [] field.Kind = "Slice" ->
            \* bindSlice
            IF field.Elem \in {"String", "Int"}
                THEN /\ flags' = Append(flags, Registration(Top.typ, field, t))
                     /\ stack' = Advance(stack)
                     /\ err' = NoErr
                ELSE /\ err' = Err("UnsupportedSlice", field.Name)
                     /\ UNCHANGED <<flags, stack>>
      [] field.Kind = "Struct" ->
            \* bindStruct: defer tryStepOut, bindFlags on the field
            /\ stack' = Append(stack, Frame(field.Typ, field, t))
            /\ UNCHANGED <<flags, err>>
      [] field.Kind = "Pointer" ->
            \* bindPointer: both checks return before tryStepOut is deferred
            IF pointerCheck(field) # NoErr
                THEN /\ err' = pointerCheck(field)
                     /\ UNCHANGED <<flags, stack>>
            ELSE /\ stack' = Append(stack, Frame(field.Typ, field, t))
                 /\ UNCHANGED <<flags, err>>
      [] OTHER ->
            /\ err' = Err("UnsupportedType", field.Name)
            /\ UNCHANGED <<flags, stack>>

\* one iteration of the loop of bindFlags
BindField ==
    /\ AtField("bind")
    /\ LET field == CurField
           t == parseTag(field, cfg)
       IN  /\ tag' = TagOf(Top.typ, field, t)
           /\ IF t.res = "panic" THEN Panic
              ELSE IF t.res = "nil"
                  THEN /\ cfg' = [cfg EXCEPT !.parent = parentAfterParseTag(field, t, cfg)]
                       /\ stack' = Advance(stack)
                       /\ UNCHANGED <<mode, err, flags>>
              ELSE /\ cfg' = [cfg EXCEPT !.parent = parentAfterParseTag(field, t, cfg)]
                   /\ mode' = mode
                   /\ BindDispatch(field, t, cfg')
    /\ UNCHANGED <<v0, opts, probe, cmd, reads, result>>

\* the switch of readFlags on the field's kind; storing into an unexported
\* field (reflect.Value.Set, Interface) panics
ReadDispatch(field, t) ==
    CASE field.Kind \in ScalarKinds ->
            IF ~field.Exported
                THEN /\ mode' = "panic"
                     /\ UNCHANGED <<reads, stack, err>>
                ELSE /\ reads' = Append(reads, Reading(Top.typ, field, t))
                     /\ stack' = Advance(stack)
                     /\ UNCHANGED <<mode, err>>
      [] field.Kind = "Slice" ->
            \* readSlice: its error names the element type, not the field
            IF field.Elem \notin {"String", "Int"}
                THEN /\ err' = Err("UnsupportedSlice", ElemTypeName(field))
                     /\ UNCHANGED <<reads, stack, mode>>
            ELSE IF ~field.Exported
                THEN /\ mode' = "panic"
                     /\ UNCHANGED <<reads, stack, err>>
            ELSE /\ reads' = Append(reads, Reading(Top.typ, field, t))
                 /\ stack' = Advance(stack)
                 /\ UNCHANGED <<mode, err>>
      [] field.Kind = "Struct" ->
            \* readStruct
            IF ~field.Exported
                THEN /\ mode' = "panic"
                     /\ UNCHANGED <<reads, stack, err>>
                ELSE /\ stack' = Append(stack, Frame(field.Typ, field, t))
                     /\ UNCHANGED <<reads, mode, err>>
      [] field.Kind = "Pointer" ->
            \* readPointer
            IF pointerCheck(field) # NoErr
                THEN /\ err' = pointerCheck(field)
                     /\ UNCHANGED <<reads, stack, mode>>
            ELSE IF ~field.Exported
                THEN /\ mode' = "panic"
                     /\ UNCHANGED <<reads, stack, err>>
            ELSE /\ stack' = Append(stack, Frame(field.Typ, field, t))
                 /\ UNCHANGED <<reads, mode, err>>
      [] OTHER ->
            /\ err' = Err("UnsupportedType", field.Name)
            /\ UNCHANGED <<reads, stack, mode>>

\* one iteration of the loop of readFlags: getTag, never parseTag
ReadField ==
    /\ AtField("read")
    /\ LET field == CurField
           t == getTag(field, cfg)
       IN  /\ tag' = TagOf(Top.typ, field, t)
           /\ IF t.res = "panic"
                  THEN /\ mode' = "panic"
                       /\ UNCHANGED <<stack, err, reads>>
              ELSE IF t.res = "nil"
                  THEN /\ stack' = Advance(stack)
                       /\ UNCHANGED <<mode, err, reads>>
              ELSE ReadDispatch(field, t)
    /\ UNCHANGED <<v0, opts, probe, cmd, cfg, flags, result>>

\* variant: bindStruct/readStruct drop the error of the nested walk
StructReturnDroppingError ==
    /\ mode \in {"bind", "read"}
    /\ Len(stack) >= 2
    /\ err # NoErr \/ Top.i > NumField(Top.typ)
    /\ cfg' = [cfg EXCEPT !.parent = tryStepOut(Top.via, cfg)]
    /\ stack' = Advance(SubSeq(stack, 1, Len(stack) - 1))
    /\ err' = NoErr
    /\ UNCHANGED <<v0, opts, probe, cmd, mode, tag, flags, reads, result>>

\* a nested bindFlags/readFlags returns (its loop ended or it returns an error)
\* into bindStruct/readStruct/bindPointer/readPointer, whose deferred
\* tryStepOut runs before the caller's loop goes on
StructReturn ==
    /\ mode \in {"bind", "read"}
    /\ Len(stack) >= 2
    /\ err # NoErr \/ Top.i > NumField(Top.typ)
    /\ cfg' = [cfg EXCEPT !.parent = tryStepOut(Top.via, cfg)]
    /\ stack' = IF err = NoErr
                   THEN Advance(SubSeq(stack, 1, Len(stack) - 1))
                   ELSE SubSeq(stack, 1, Len(stack) - 1)
    /\ UNCHANGED <<v0, opts, probe, cmd, mode, err, tag, flags, reads, result>>

\* the outcomes of viper.BindPFlags(cmd.Flags()): it is called only when
\* bindFlags returned nil; its failure is tried with the command target
BindPFlagsFails ==
    IF mode = "bind" /\ err = NoErr /\ v0 = CommandTarget THEN BOOLEAN ELSE { FALSE }

\* the top-level bindFlags/readFlags returns to BindFlags/ReadFlags; BindFlags
\* returns the error of bindFlags, or else what viper.BindPFlags returns
WalkReturn ==
    /\ mode \in {"bind", "read"}
    /\ Len(stack) = 1
    /\ err # NoErr \/ Top.i > NumField(Top.typ)
    /\ \E fails \in BindPFlagsFails :
          result' = [result EXCEPT ![mode] =
                       IF fails
                          THEN [st |-> "error", err |-> Err("BindPFlags", <<>>),
                                parent |-> cfg.parent]
                          ELSE [st |-> IF err = NoErr THEN "ok" ELSE "error",
                                err |-> err, parent |-> cfg.parent]]
    /\ cmd' = IF mode = "bind" /\ err = NoErr THEN [cmd EXCEPT !.bound = TRUE] ELSE cmd
    /\ mode' = "idle"
    /\ stack' = <<>>
    /\ err' = NoErr
    /\ UNCHANGED <<v0, opts, probe, cfg, tag, flags, reads>>

\* cobra's Execute: PreRunE if it is set, else PreRun if it is set, and then
\* the run handler unless the hook returned an error
RunCommand ==
    \E fail \in Failures :
        LET c == defaultFlagConfig(opts)
            name == IF cmd.PreRunE # "nil" THEN "PreRunE" ELSE "PreRun"
            events == Hook(cmd[name], name, c, fail)
        IN  cmd' = [cmd EXCEPT !.ran =
                      IF Passed(events, name) THEN events \o << "Run" >> ELSE events]

\* variant: the command is executed whatever BindFlags returned
ExecuteIgnoringBindError ==
    /\ mode = "idle"
    /\ result.bind.st # "none"
    /\ cmd.ran = <<>>
    /\ RunCommand
    /\ UNCHANGED <<v0, opts, probe, cfg, mode, stack, err, tag, flags, reads, result>>

\* the second half of BindAndExecute: cmd.Execute() when BindFlags returned
\* nil, and nothing when it returned an error
Execute ==
    /\ mode = "idle"
    /\ result.bind.st = "ok"
    /\ cmd.ran = <<>>
    /\ RunCommand
    /\ UNCHANGED <<v0, opts, probe, cfg, mode, stack, err, tag, flags, reads, result>>

Next ==
    \/ BindFlagsCall
    \/ ReadFlagsCall
    \/ BindField
    \/ ReadField
    \/ StructReturn
    \/ WalkReturn
    \/ Execute

Spec == Init /\ [][Next]_vars

----------------------------------------------------------------------------
(* Properties *)

Modes == {"bind", "read"}

Returned(m) == result[m].st # "none"

Names(regs) == [k \in 1..Len(regs) |-> regs[k].Name]

Visited(regs) == [k \in 1..Len(regs) |-> <<regs[k].typ, regs[k].fld>>]

\* C1: when a top-level bind or read walk returns, with success or with any
\* error, the path context cfg.parent has length 0.
C1_PathContextEmptyOnReturn ==
    \A m \in Modes : Returned(m) => Len(result[m].parent) = 0

\* C4: when both walks have returned successfully, the read walk has visited
\* the same fields in the same order as the bind walk and has looked each one
\* up under the flag name that the bind walk registered for it.
C4_ReadLooksUpBoundNames ==
    (result.bind.st = "ok" /\ result.read.st = "ok")
        => /\ Visited(reads) = Visited(flags)
           /\ Names(reads) = Names(flags)

\* the first token of the tag text the walk reads for a field under c
FirstToken(field, c) ==
    TrimSpace(Split(TrimSpace(Lookup(field, c.tagName).value), c.tagLabelSep)[1])

\* the walker has just parsed the tag of the probe field
ProbeParsed == tag.typ = "Probe" /\ tag.fld = probe.Name

\* C6: for every raw tag text the tag parser and the walk terminate normally:
\* parsing never crashes, whatever the tokens are.
C6_MalformedTagNeverCrashes ==
    v0.typ = "Probe" => (mode # "panic" /\ tag.data.res # "panic")

\* C7: a tag whose trimmed first token is `-` yields no settings, whatever
\* labels follow, and the walk registers no flag, reads nothing and pushes
\* nothing for that field.
C7_SkipSentinelYieldsNothing ==
    (ProbeParsed /\ FirstToken(probe, cfg) = TagLabelSkip)
        => /\ tag.data.res # "data"
           /\ \A k \in 1..Len(flags) : flags[k].fld # probe.Name
           /\ \A k \in 1..Len(reads) : reads[k].fld # probe.Name
           /\ cfg.parent = <<>>

\* C8: the origin name is the lower-cased field identifier when the tag is
\* absent, empty, blank or has an empty first token, and the trimmed first
\* token otherwise.
C8_NameFallback ==
    (ProbeParsed /\ tag.data.res = "data")
        => tag.data.origin =
              (IF FirstToken(probe, cfg) = <<>>
                  THEN ToLower(probe.Name)
                  ELSE FirstToken(probe, cfg))

\* C10: a walk whose target is not a pointer to a struct returns an
\* invalid-argument error, processes no field and does not crash.
C10_NonStructPointerRejected ==
    v0.kind # "ptrStruct"
        => /\ mode # "panic"
           /\ flags = <<>> /\ reads = <<>> /\ stack = <<>>
           /\ \A m \in Modes :
                Returned(m) => (result[m].st = "error"
                                /\ result[m].err.kind = "InvalidArgument")

StartsWith(s, p) == Len(p) <= Len(s) /\ SubSeq(s, 1, Len(p)) = p

\* what precedes the origin in a resolved name
Prefix(t) == SubSeq(t.Name, 1, Len(t.Name) - Len(t.origin))

\* the walker has just parsed a field of the struct on top of the stack and
\* its loop has moved on
JustParsed ==
    /\ stack # <<>>
    /\ tag.data.res = "data"
    /\ tag.typ = Top.typ
    /\ Top.i >= 2
    /\ tag.fld = Fields(Top.typ)[Top.i - 1].Name

s_child == <<"c", "h", "i", "l", "d">>

C3_EndToEndNesting ==
    /\ (v0.typ = "Nested" /\ opts = {} /\ result.bind.st = "ok") =>
          Names(flags) = << s_name, s_addr >>
    /\ (v0.typ = "Nested" /\ opts = {"squash"} /\ result.bind.st = "ok") =>
          Names(flags) = << s_child \o <<".">> \o s_name, s_addr >>
    /\ cfg.squash =>
          /\ cfg.parent = <<>>
          /\ tag.data.res = "data" => tag.data.Name = tag.data.origin
          /\ \A k \in 1..Len(stack) :
                stack[k].tag.res = "data" => stack[k].tag.Name = stack[k].tag.origin
          /\ \A k \in 1..Len(flags) : \A n \in 1..Len(flags[k].Name) :
                flags[k].Name[n] # "."

C3_Witness ==
    /\ v0.typ = "Deep" /\ cfg.squash /\ mode = "bind"
    /\ Len(stack) = 3
    /\ Len(flags) = 1

RECURSIVE ScanLabels(_, _, _, _)
\* the label tokens of the text after the first separator, read left to
\* right: marker followed by separator is a literal separator, any other
\* separator ends a token
ScanLabels(s, sep, cur, acc) ==
    IF s = <<>> THEN Append(acc, cur)
    ELSE IF Len(s) >= 2 /\ s[1] = Escape /\ s[2] = sep
        THEN ScanLabels(SubSeq(s, 3, Len(s)), sep, Append(cur, sep), acc)
    ELSE IF s[1] = sep THEN ScanLabels(Tail(s), sep, <<>>, Append(acc, cur))
    ELSE ScanLabels(Tail(s), sep, Append(cur, s[1]), acc)

RECURSIVE StoreAll(_, _)
StoreAll(settings, tokens) ==
    IF tokens = <<>> THEN settings
    ELSE StoreAll(StoreLabel(settings, Head(tokens)), Tail(tokens))

\* the settings a tag text stands for when escaped separators are literal
EscapedSettings(field, c) ==
    LET text == TrimSpace(Lookup(field, c.tagName).value)
        names == Split(text, c.tagLabelSep)
        rest == SubSeq(text, Len(names[1]) + 2, Len(text))
        labels == IF Len(names) = 1 THEN <<>> ELSE ScanLabels(rest, c.tagLabelSep, <<>>, <<>>)
    IN  StoreAll(MapPut(EmptyMap, c.tagName, TrimSpace(names[1])), labels)

\* C5: a token at position >= 1 ending with the escape marker loses the marker
\* and is joined to the next token with the separator, repeatedly; the label
\* value keeps the literal separators untruncated and the tokens consumed by
\* the joining are not parsed as labels of their own.
C5_EscapedSeparator ==
    (ProbeParsed /\ tag.data.res = "data") =>
        LET ref == TagData(probe, EscapedSettings(probe, cfg), cfg)
        IN  /\ tag.data.Short = ref.Short
            /\ tag.data.Desc = ref.Desc
            /\ tag.data.Default = ref.Default
            /\ tag.data.squash = ref.squash
            /\ tag.data.origin = ref.origin

\* the tag name,desc:a\,short:N : the description is a,short:N and there is
\* no short alias
C5_Witness ==
    /\ ProbeParsed
    /\ tag.data.res = "data"
    /\ tag.data.Desc = <<"a", TagLabelSep>> \o Label(s_short, <<"N">>)
    /\ tag.data.Short = <<>>

\* the full-form tag text name,short:X,desc:D,default:V
FullForm(f, x, d, v) ==
    TagText(<<f, Label(s_short, x), Label(s_desc, d), Label(s_default, v)>>)

\* the walker has just parsed the probe field, a scalar carrying a tag under
\* the configured tag key
ScalarProbeParsed ==
    /\ ProbeParsed
    /\ probe.Kind = "String"
    /\ Lookup(probe, cfg.tagName).ok

\* the tag text the walk reads for the probe field is FullForm(f, x, d, v)
ProbeIsFullForm(f, x, d, v) ==
    /\ ScalarProbeParsed
    /\ Lookup(probe, cfg.tagName).value = FullForm(f, x, d, v)

\* the tag text read for the probe field begins name,short:X,
ProbeBegins(f, x) ==
    StartsWith(Lookup(probe, cfg.tagName).value,
               TagText(<<f, Label(s_short, x)>>) \o <<TagLabelSep>>)

\* C9 as stated: for all name, X, D, V without separator and colon, the tag
\* name,short:X,desc:D,default:V yields Name=name, Short=X, Desc=D, Default=V,
\* squash=false, and the field is not skipped.
C9_FullFormTagAsStated ==
    ScalarProbeParsed =>
    \A f \in FirstTokens, x \in LabelValues : ProbeBegins(f, x) =>
    \A d \in LabelValues, v \in LabelValues :
        ProbeIsFullForm(f, x, d, v) =>
            /\ tag.data.res = "data"
            /\ tag.data.Name = f
            /\ tag.data.Short = x
            /\ tag.data.Desc = d
            /\ tag.data.Default = v
            /\ ~tag.data.squash

EndsWithEscape(s) == s # <<>> /\ s[Len(s)] = Escape

\* C9 amended: the same for a name that is not blank and not `-` after
\* trimming, values X, D, V that do not end with the escape marker, a V
\* without trailing blanks (the tag text is trimmed as a whole) and a tag key
\* that is none of short, desc, default: the field is not skipped, Name is the
\* trimmed name, Short=X, Desc=D, Default=V, squash=false.
C9_FullFormTag ==
    ScalarProbeParsed =>
    \A f \in FirstTokens, x \in LabelValues : ProbeBegins(f, x) =>
    \A d \in LabelValues, v \in LabelValues :
        ( /\ ProbeIsFullForm(f, x, d, v)
          /\ TrimSpace(f) # <<>> /\ TrimSpace(f) # TagLabelSkip
          /\ ~EndsWithEscape(x) /\ ~EndsWithEscape(d) /\ ~EndsWithEscape(v)
          /\ TrimRight(v) = v
          /\ cfg.tagName \notin {TagLabelShort, TagLabelDesc, TagLabelDefault} ) =>
            /\ tag.data.res = "data"
            /\ tag.data.Name = TrimSpace(f)
            /\ tag.data.Short = x
            /\ tag.data.Desc = d
            /\ tag.data.Default = v
            /\ ~tag.data.squash

C9_Witness ==
    /\ ProbeIsFullForm(<<" ", "n", " ">>, <<"N">>, <<"y", " ">>, <<>>)
    /\ mode = "bind"
    /\ Len(flags) = 1
    /\ flags[1].Name = <<"n">>
    /\ flags[1].Desc = <<"y", " ">>

----------------------------------------------------------------------------
(* The walk as a depth-first traversal *)

\* a scalar or sequence field: one that gets a flag of its own
IsLeaf(field) ==
    \/ field.Kind \in ScalarKinds
    \/ (field.Kind = "Slice" /\ field.Elem \in {"String", "Int"})

\* a field whose struct is walked in place
IsWalked(field) ==
    \/ field.Kind = "Struct"
    \/ (field.Kind = "Pointer" /\ ~field.Nil /\ field.Elem = "Struct")

\* the error a field that is neither a leaf nor walked stands for
FieldError(field) ==
    IF field.Kind = "Pointer" /\ field.Nil THEN Err("NilPointer", field.Name)
    ELSE IF field.Kind = "Slice" THEN Err("UnsupportedSlice", field.Name)
    ELSE Err("UnsupportedType", field.Name)

RECURSIVE DepthFirst(_, _, _)
\* the fields k, k+1, ... of struct typ in depth-first declaration order: the
\* leaves met up to the first field in error, and that error; a field whose
\* tag yields no settings is passed over with all that is below it
DepthFirst(typ, k, c) ==
    IF k > NumField(typ) THEN [leaves |-> <<>>, err |-> NoErr]
    ELSE LET f == Fields(typ)[k]
             rest == DepthFirst(typ, k + 1, c)
             sub == DepthFirst(f.Typ, 1, c)
         IN  IF parseTag(f, c).res # "data" THEN rest
             ELSE IF IsLeaf(f)
                 THEN [leaves |-> << <<typ, f.Name>> >> \o rest.leaves, err |-> rest.err]
             ELSE IF ~IsWalked(f) THEN [leaves |-> <<>>, err |-> FieldError(f)]
             ELSE IF sub.err # NoErr THEN sub
             ELSE [leaves |-> sub.leaves \o rest.leaves, err |-> rest.err]

\* the kinds the switch of bindFlags and readFlags has a case for
HasHandler(field) == field.Kind \in ScalarKinds \cup {"Slice", "Struct", "Pointer"}

RECURSIVE HasPointerOrMap(_)
\* struct typ has, at some depth, a field that is a pointer or of a kind
\* without handler: only such a field gives a nil-pointer or unsupported-type
\* error
HasPointerOrMap(typ) ==
    \E k \in 1..NumField(typ) :
        LET f == Fields(typ)[k]
        IN  \/ f.Kind = "Pointer"
            \/ ~HasHandler(f)
            \/ (f.Kind = "Struct" /\ HasPointerOrMap(f.Typ))

\* the registrations of the bind walk, the readings of the read walk
Done(m) == IF m = "bind" THEN flags ELSE reads

\* the walker has just parsed the tag of the field its loop stands at, and
\* got settings
ParsedCurrent ==
    /\ mode \in Modes
    /\ stack # <<>>
    /\ Top.i <= NumField(Top.typ)
    /\ tag.typ = Top.typ
    /\ tag.fld = CurField.Name
    /\ tag.data.res = "data"

\* C11: a walk that dispatches a nil pointer field returns a nil-pointer error
\* naming that field; the flags registered (fields read) are exactly those of
\* the fields before it in depth-first declaration order, they stay after the
\* return, and no field after the nil pointer is processed.
C11_NilPointerAborts ==
    /\ (ParsedCurrent /\ CurField.Kind = "Pointer" /\ CurField.Nil) =>
          err = Err("NilPointer", CurField.Name)
    /\ \A m \in Modes :
          LET ref == DepthFirst(v0.typ, 1, defaultFlagConfig(opts))
          IN  (Returned(m) /\ v0.kind = "ptrStruct" /\ HasPointerOrMap(v0.typ)
                 /\ ref.err.kind = "NilPointer") =>
                 /\ result[m].st = "error"
                 /\ result[m].err = ref.err
                 /\ Visited(Done(m)) = ref.leaves

\* struct { A struct { Name; P *Child (nil); Addr } `a`; Addr }: both walks
\* have returned the error for P after the one field before it
C11_Witness ==
    /\ v0.typ = "DeepNil"
    /\ result.bind.err = Err("NilPointer", <<"P">>)
    /\ result.read.err = Err("NilPointer", <<"P">>)
    /\ Visited(flags) = << <<"PtrNil", <<"N", "a", "m", "e">> >> >>
    /\ Visited(reads) = Visited(flags)

\* C12: a field whose kind has no handler, at any nesting depth, makes the
\* top-level walk return an unsupported-type error naming that field, and no
\* field after it in depth-first declaration order is processed, neither in
\* its own struct nor in an enclosing one.
C12_UnsupportedKindAborts ==
    /\ (ParsedCurrent /\ ~HasHandler(CurField)) =>
          err = Err("UnsupportedType", CurField.Name)
    /\ (mode \in Modes /\ err.kind = "UnsupportedType") =>
          \A k \in 1..Len(stack) : stack[k].i <= NumField(stack[k].typ)
    /\ \A m \in Modes :
          LET ref == DepthFirst(v0.typ, 1, defaultFlagConfig(opts))
          IN  (Returned(m) /\ v0.kind = "ptrStruct" /\ HasPointerOrMap(v0.typ)
                 /\ ref.err.kind = "UnsupportedType") =>
                 /\ result[m].st = "error"
                 /\ result[m].err = ref.err
                 /\ Visited(Done(m)) = ref.leaves

\* the map-typed field M two levels down: both walks have returned the error
\* for M after the one field before it, and Age, Age and Addr after it were
\* not processed
C12_Witness ==
    /\ v0.typ = "DeepBad"
    /\ result.bind.err = Err("UnsupportedType", <<"M">>)
    /\ result.read.err = Err("UnsupportedType", <<"M">>)
    /\ Visited(flags) = << <<"LeafBad", <<"N", "a", "m", "e">> >> >>
    /\ Visited(reads) = Visited(flags)

\* the field of struct typ with the given identifier
FieldNamed(typ, name) ==
    Fields(typ)[CHOOSE k \in 1..NumField(typ) : Fields(typ)[k].Name = name]

\* C13: in the bind walk and in the read walk a field that is not exported
\* is never dispatched: its tag yields no settings, no flag is registered for
\* it, nothing is read into it, its struct is not walked, and the walk does
\* not crash on it.
C13_ExportedOnly ==
    /\ (tag.typ # "none" /\ ~FieldNamed(tag.typ, tag.fld).Exported) =>
          (tag.data.res = "nil" /\ mode # "panic")
    /\ \A m \in Modes : \A k \in 1..Len(Done(m)) :
          FieldNamed(Done(m)[k].typ, Done(m)[k].fld).Exported
    /\ \A k \in 2..Len(stack) : stack[k].via.Exported

\* the struct tag of the field has the key
Carries(field, key) == key \in DOMAIN field.Tag

\* nothing was registered or read for field fld of struct typ, and its struct
\* is not being walked
Untouched(typ, fld) ==
    /\ \A m \in Modes : \A k \in 1..Len(Done(m)) :
          ~(Done(m)[k].typ = typ /\ Done(m)[k].fld = fld)
    /\ \A k \in 2..Len(stack) :
          ~(stack[k - 1].typ = typ /\ stack[k].via.Name = fld)

\* C14: with ignoreUntaggedFields=true an exported field without the
\* configured tag key yields no settings: no flag, no reading, no push, and
\* nothing of a struct-typed field is visited; a field carrying the key with
\* an empty value is processed under its lower-cased identifier; with
\* ignoreUntaggedFields=false an untagged field is processed under its
\* lower-cased identifier.
C14_IgnoreUntagged ==
    /\ (tag.typ # "none" /\ FieldNamed(tag.typ, tag.fld).Exported) =>
          LET f == FieldNamed(tag.typ, tag.fld)
          IN  /\ (cfg.ignoreUntaggedFields /\ ~Carries(f, cfg.tagName)) =>
                    /\ tag.data.res = "nil"
                    /\ Untouched(tag.typ, tag.fld)
                    /\ \A m \in Modes : \A k \in 1..Len(Done(m)) :
                          isStepInto(f) => Done(m)[k].typ # f.Typ
                    /\ (Len(stack) = 1 /\ Top.typ = tag.typ) => cfg.parent = <<>>
              /\ (cfg.ignoreUntaggedFields /\ Carries(f, cfg.tagName)
                    /\ f.Tag[cfg.tagName] = <<>>) =>
                    /\ tag.data.res = "data"
                    /\ tag.data.origin = ToLower(f.Name)
              /\ (~cfg.ignoreUntaggedFields /\ ~Carries(f, cfg.tagName)) =>
                    /\ tag.data.res = "data"
                    /\ tag.data.origin = ToLower(f.Name)
    /\ (v0.typ = "Nested" /\ result.bind.st = "ok") =>
          /\ opts = {"ignoreUntaggedFields"} => Names(flags) = << s_addr >>
          /\ opts = {} => Names(flags) = << s_name, s_addr >>

\* the probe struct field X tagged `flag:"..."` when the key is `short` and
\* untagged fields are ignored: X with its struct, and Addr, which does not
\* carry `short` either, are passed over by both walks
C14_Witness ==
    /\ v0.typ = "Probe"
    /\ probe.Kind = "Struct"
    /\ opts = {"tagName", "ignoreUntaggedFields"}
    /\ result.bind.st = "ok" /\ result.read.st = "ok"
    /\ flags = <<>> /\ reads = <<>>

IsPrefix(p, q) == Len(p) <= Len(q) /\ SubSeq(q, 1, Len(p)) = p

\* C15: a successful bind walk registers exactly one flag per processed
\* scalar or sequence field, in depth-first declaration order, the fields of
\* a nested struct at the position where that struct field is declared, and
\* at every point of the walk the registrations are a prefix of that order;
\* {Name `name,default:x`; Age `age,default:18`} registers name with default
\* x and then age with default 18, both with an empty short alias.
C15_VisitOrder ==
    /\ (v0.kind = "ptrStruct" /\ (mode = "bind" \/ result.bind.st = "ok")) =>
          LET ref == DepthFirst(v0.typ, 1, defaultFlagConfig(opts))
          IN  /\ IsPrefix(Visited(flags), ref.leaves)
              /\ result.bind.st = "ok" => Visited(flags) = ref.leaves
    /\ (v0.typ = "Pair" /\ opts \subseteq {"squash", "ignoreUntaggedFields"}
          /\ result.bind.st = "ok") =>
          /\ Len(flags) = 2
          /\ flags[1].Name = s_name /\ flags[1].Default = <<"x">> /\ flags[1].Short = <<>>
          /\ flags[2].Name = s_age /\ flags[2].Default = 18 /\ flags[2].Short = <<>>

\* three levels: the leaf of the innermost struct first, then the field after
\* it in the middle struct, then the one after that in the outermost
C15_Witness ==
    /\ v0.typ = "Deep"
    /\ result.bind.st = "ok"
    /\ Visited(flags) = << <<"Child", <<"N", "a", "m", "e">> >>,
                           <<"Mid", <<"A", "g", "e">> >>,
                           <<"Deep", <<"A", "d", "d", "r">> >> >>

RECURSIVE Origins(_, _)
\* the origin names of the non-squashed struct and pointer-to-struct fields
\* through which the frames k.. of the stack were entered, outermost first
Origins(st, k) ==
    IF k > Len(st) THEN <<>>
    ELSE IF ~cfg.squash /\ ~st[k].tag.squash
        THEN << st[k].tag.origin >> \o Origins(st, k + 1)
        ELSE Origins(st, k + 1)

\* C16: at every point of a bind or read walk the path context is the
\* sequence of origin names of the non-squashed struct / pointer-to-struct
\* ancestor fields whose subtree is being visited, outermost first, so its
\* length is their number.
C16_PathContextDepth ==
    (mode \in Modes /\ stack # <<>>) => cfg.parent = Origins(stack, 2)

\* event a is in the sequence and comes before the first event b
Before(s, a, b) ==
    \E i \in 1..Len(s) : s[i] = a /\ \A j \in 1..i : s[j] # b

\* the command ran the event
Ran(e) == \E i \in 1..Len(cmd.ran) : cmd.ran[i] = e

\* C17: when BindFlags was called with WithAutoUnMarshalOption() and the
\* command is executed, UnmarshalFlags is invoked on the target before the
\* run handler, whether or not the command had a PreRun or PreRunE hook.
C17_AutoUnmarshalBeforeRun ==
    ("autoUnMarshal" \in opts /\ Ran("Run")) =>
        Before(cmd.ran, "UnmarshalFlags", "Run")

\* C18: at every state, before, during and after a bind or read walk, the
\* tag key, the label separator, the global squash flag and the
\* ignore-untagged flag of the configuration have the values fixed at
\* construction: the defaults `flag`, `,`, true, false, each replaced only by
\* the value of its option function when that was passed; only the path
\* context differs from the configuration as constructed.
C18_ConfigurationFrame ==
    /\ cfg.tagName = (IF "tagName" \in opts THEN <<"s", "h", "o", "r", "t">>
                      ELSE IF "tagNameSquash" \in opts THEN <<"s", "q", "u", "a", "s", "h">>
                      ELSE <<"f", "l", "a", "g">>)
    /\ cfg.tagLabelSep = (IF "tagLabelSep" \in opts THEN ";" ELSE ",")
    /\ cfg.squash = ("squash" \notin opts)
    /\ cfg.ignoreUntaggedFields = ("ignoreUntaggedFields" \in opts)
    /\ DOMAIN cfg = {"tagName", "tagLabelSep", "squash", "ignoreUntaggedFields",
                     "autoUnMarshalFlag", "preAutoUnMarshal", "preAutoUnMarshalE",
                     "parent"}
    /\ cfg.autoUnMarshalFlag = ("autoUnMarshal" \in opts)

\* two levels down in a bind walk with three options passed: the path
\* context holds two segments
C18_Witness ==
    /\ v0.typ = "Deep"
    /\ opts = {"squash", "tagLabelSep", "ignoreUntaggedFields"}
    /\ mode = "bind"
    /\ Len(stack) = 3
    /\ Len(cfg.parent) = 2

\* a1 + "." + ... + "." + an + "." + origin; the origin alone when n = 0
Namespaced(segments, origin) == Join(Append(segments, origin), ".")

\* C19: with global squash=false, in a bind or read walk, the resolved name
\* of a field reached through non-squashed struct ancestors with origin names
\* a1..an is a1.….an.origin, and the origin itself when there is no such
\* ancestor; the segments on the path context are origins, so none of them
\* holds a ".".
C19_NamespacedName ==
    (mode \in Modes /\ ~cfg.squash) =>
        /\ \A k \in 2..Len(stack) :
              stack[k].tag.Name =
                  Namespaced(Origins(SubSeq(stack, 1, k - 1), 2), stack[k].tag.origin)
        /\ JustParsed =>
              tag.data.Name = Namespaced(Origins(stack, 2), tag.data.origin)
        /\ \A k \in 1..Len(cfg.parent) : \A n \in 1..Len(cfg.parent[k]) :
              cfg.parent[k][n] # "."

\* the position of the first colon of a token, 0 when it has none
FirstColon(tok) ==
    IF \A n \in 1..Len(tok) : tok[n] # ":" THEN 0
    ELSE CHOOSE n \in 1..Len(tok) : tok[n] = ":" /\ \A j \in 1..(n - 1) : tok[j] # ":"

\* the label key of a token: the trimmed text before its first colon
KeyOf(tok) ==
    TrimSpace(IF FirstColon(tok) = 0 THEN tok ELSE SubSeq(tok, 1, FirstColon(tok) - 1))

\* the value of a token: all that follows its first colon, or its trimmed text
ValueOf(tok) ==
    IF FirstColon(tok) = 0 THEN TrimSpace(tok)
    ELSE SubSeq(tok, FirstColon(tok) + 1, Len(tok))

\* the tokens at position >= 1 of the tag text read for a field, escaped
\* separators being literal
LabelsOf(field, c) ==
    LET text == TrimSpace(IF Carries(field, c.tagName) THEN field.Tag[c.tagName] ELSE <<>>)
        first == Split(text, c.tagLabelSep)[1]
    IN  IF Len(first) = Len(text) THEN <<>>
        ELSE ScanLabels(SubSeq(text, Len(first) + 2, Len(text)), c.tagLabelSep, <<>>, <<>>)

\* what the tokens leave under a key: the value of the last token with that
\* key; without one, nothing, or the name token for the tag key's own slot
StoredUnder(field, c, toks, key) ==
    LET S == { k \in 1..Len(toks) :
                 KeyOf(toks[k]) = key /\ (FirstColon(toks[k]) # 0 \/ key # <<>>) }
        last == CHOOSE k \in S : \A j \in S : j <= k
    IN  IF S # {} THEN ValueOf(toks[last])
        ELSE IF key = c.tagName THEN FirstToken(field, c)
        ELSE <<>>

\* C20: every token at position >= 1 is split on its first colon only: the
\* trimmed text before it is the key and all that follows, further colons
\* included, is the stored value (default::1 stores :1, desc:u:U stores u:U);
\* a token without colon stores its trimmed text as key and as value. So
\* the short alias, description and default of a parsed tag are what the
\* last token with that key holds, and squash is set by a token whose key is
\* squash (the name token counting as one stored under the tag key).
C20_LabelParsing ==
    (ProbeParsed /\ tag.data.res = "data") =>
        LET toks == LabelsOf(probe, cfg)
        IN  /\ tag.data.Short = StoredUnder(probe, cfg, toks, TagLabelShort)
            /\ tag.data.Desc = StoredUnder(probe, cfg, toks, TagLabelDesc)
            /\ tag.data.Default = StoredUnder(probe, cfg, toks, TagLabelDefault)
            /\ tag.data.squash =
                  (isStepInto(probe) /\
                   (cfg.tagName = TagLabelSquash \/
                    \E k \in 1..Len(toks) : KeyOf(toks[k]) = TagLabelSquash))

\* the tag name,default::1,desc:u:U
C20_Witness ==
    /\ ProbeParsed
    /\ tag.data.res = "data"
    /\ tag.data.Default = <<":", "1">>
    /\ tag.data.Desc = <<"u", ":", "U">>
    /\ tag.data.origin = s_name

\* the tag of the field has a label whose key is squash, whatever its value
HasSquashLabel(field, c) ==
    \E k \in 1..Len(LabelsOf(field, c)) : KeyOf(LabelsOf(field, c)[k]) = TagLabelSquash

\* C21: the parsed squash setting of a field is true if and only if a label
\* with the key squash is among its labels and the field is a struct or a
\* pointer to a struct; on a scalar or sequence field it is false.
C21_SquashLabelScope ==
    (tag.typ # "none" /\ tag.data.res = "data") =>
        LET f == FieldNamed(tag.typ, tag.fld)
        IN  tag.data.squash = (isStepInto(f) /\ HasSquashLabel(f, cfg))

\* C22: in the bind walk and in the read walk a sequence field whose element
\* kind is string or int is handed to the sequence handler, which registers
\* or reads it, and a sequence field of any other element kind makes the walk
\* return an error that names the field.
C22_SequenceElementKinds ==
    /\ (ParsedCurrent /\ CurField.Kind = "Slice") =>
          /\ CurField.Elem \notin {"String", "Int"}
          /\ err.kind = "UnsupportedSlice"
          /\ err.field = CurField.Name
    /\ \A m \in Modes :
          (v0.typ = "Slices" /\ opts = {} /\ Returned(m)) =>
             /\ result[m].err = Err("UnsupportedSlice", <<"B">>)
             /\ Visited(Done(m)) = << <<"Slices", <<"T">> >>, <<"Slices", <<"I">> >> >>

\* C23: a pointer field is recursed into only if it is non-nil and points to
\* a struct; a dispatched non-nil pointer to anything else sets the
\* unsupported-type error naming the field, no frame is entered for it, and
\* the path context is what it was before the field: the origins of the
\* non-squashed ancestors in a bind walk, empty in a read walk.
C23_PointerFields ==
    /\ \A k \in 2..Len(stack) :
          stack[k].via.Kind = "Pointer" =>
              (~stack[k].via.Nil /\ stack[k].via.Elem = "Struct")
    /\ (ParsedCurrent /\ CurField.Kind = "Pointer" /\ ~CurField.Nil
          /\ CurField.Elem # "Struct") =>
          /\ err = Err("UnsupportedType", CurField.Name)
          /\ cfg.parent = (IF mode = "bind" THEN Origins(stack, 2) ELSE <<>>)
          /\ \A m \in Modes : \A k \in 1..Len(Done(m)) :
                Done(m)[k].typ # CurField.Typ

\* struct { A struct { Name; P *int; Addr } `a`; Addr } with squash off: the
\* bind walk is at P with the error, and the path context still is <<a>>
C23_Witness ==
    /\ v0.typ = "DeepPtrInt"
    /\ opts = {"squash"}
    /\ mode = "bind"
    /\ err = Err("UnsupportedType", <<"P">>)
    /\ Len(stack) = 2
    /\ cfg.parent = << <<"a">> >>
    /\ Names(flags) = << <<"a", ".">> \o s_name >>

\* the loop on top of the stack takes a step at a field
FieldStep ==
    /\ mode \in Modes
    /\ err = NoErr
    /\ stack # <<>>
    /\ Top.i <= NumField(Top.typ)

\* C24: when the tag parser yields nothing for a field (skip sentinel,
\* untagged under ignore-untagged mode), that iteration only moves the loop
\* to the next field: the registered flags, the values read into the target,
\* the path context and the rest of the configuration are unchanged, no
\* frame is entered and no error is raised.
C24_SkippedFieldNoEffect ==
    [][ (FieldStep /\ tag'.data.res = "nil") =>
            /\ stack' = Advance(stack)
            /\ flags' = flags
            /\ reads' = reads
            /\ cfg' = cfg
            /\ err' = NoErr
            /\ mode' = mode ]_vars

\* struct { I `-`; S Child `-`; Addr } with squash off: both walks have
\* passed over I and S and processed Addr alone, under its own name
C24_Witness ==
    /\ v0.typ = "Skip"
    /\ opts = {"squash"}
    /\ result.bind.st = "ok" /\ result.read.st = "ok"
    /\ Names(flags) = << s_addr >>
    /\ Names(reads) = << s_addr >>

\* the hook cobra called was the closure of autoMarshalOption
WrapperRan ==
    /\ cmd.ran # <<>>
    /\ (IF cmd.PreRunE # "nil" THEN cmd.PreRunE ELSE cmd.PreRun) = "wrapped"

\* C25: whenever the installed closure has run, each pre-hook that was
\* supplied, by WithPreAutoUnMarshalOption or by WithPreAutoUnMarshalEOption,
\* was executed before UnmarshalFlags, and UnmarshalFlags was executed
\* before the command's original pre-run handler.
C25_AutoUnmarshalOrder ==
    WrapperRan =>
        /\ "preAutoUnMarshal" \in opts =>
              Before(cmd.ran, "preAutoUnMarshal", "UnmarshalFlags")
        /\ "preAutoUnMarshalE" \in opts =>
              Before(cmd.ran, "preAutoUnMarshalE", "UnmarshalFlags")
        /\ \A h \in {"PreRun", "PreRunE"} :
              Ran(h) => Before(cmd.ran, "UnmarshalFlags", h)

\* what the labels alone give a key: the value of the last label with that
\* key, nothing without one
Labelled(toks, key) ==
    LET S == { k \in 1..Len(toks) : KeyOf(toks[k]) = key }
        last == CHOOSE k \in S : \A j \in S : j <= k
    IN  IF S # {} THEN ValueOf(toks[last]) ELSE <<>>

\* C26: the first token of the tag, or the identifier fallback, decides the
\* name and the skip alone: whatever labels follow and whatever tag key
\* WithTagNameOption chose, the field is skipped exactly when its first token
\* is the skip sentinel (or it is untagged and untagged fields are ignored),
\* its origin is the first token or the lower-cased identifier, and the
\* short alias, description and default come from the labels only.
C26_FirstTokenAlone ==
    (ProbeParsed /\ tag.data.res # "panic") =>
        LET first == FirstToken(probe, cfg)
            toks == LabelsOf(probe, cfg)
        IN  /\ (tag.data.res = "nil") <=>
                  (first = TagLabelSkip \/
                   (cfg.ignoreUntaggedFields /\ ~Carries(probe, cfg.tagName)))
            /\ tag.data.res = "data" =>
                  /\ tag.data.origin = (IF first = <<>> THEN ToLower(probe.Name) ELSE first)
                  /\ tag.data.Short = Labelled(toks, TagLabelShort)
                  /\ tag.data.Desc = Labelled(toks, TagLabelDesc)
                  /\ tag.data.Default = Labelled(toks, TagLabelDefault)

\* C27: a []string or []int field whose tag gives no default, or an empty
\* one, is registered with the empty sequence as default value.
C27_EmptySequenceDefault ==
    \A k \in 1..Len(flags) :
        LET f == FieldNamed(flags[k].typ, flags[k].fld)
        IN  (f.Kind = "Slice" /\ Labelled(LabelsOf(f, cfg), TagLabelDefault) = <<>>)
                => Len(flags[k].Default) = 0

\* C28: the command is executed only after the bind walk and
\* viper.BindPFlags have both succeeded. While the walk runs and after it
\* returned an error, BindPFlags has not been called and the command has not
\* been executed; BindPFlags is called only in the step in which the walk
\* returns without error; the error of the walk is the error BindFlags
\* returns, unchanged; and the command has run only if BindFlags returned nil
\* after BindPFlags was called.
C28_ExecuteAfterBind ==
    /\ [](/\ (mode = "bind" \/ result.bind.st = "none") =>
                (~cmd.bound /\ cmd.ran = <<>>)
          /\ (result.bind.st = "error" /\ result.bind.err.kind # "BindPFlags") =>
                (~cmd.bound /\ cmd.ran = <<>>)
          /\ cmd.ran # <<>> => (result.bind.st = "ok" /\ cmd.bound))
    /\ [][/\ (mode = "bind" /\ mode' = "idle" /\ err # NoErr) =>
                /\ result'.bind.st = "error"
                /\ result'.bind.err = err
                /\ cmd' = cmd
          /\ (cmd'.bound /\ ~cmd.bound) => (mode = "bind" /\ mode' = "idle" /\ err = NoErr)
          /\ (cmd'.ran # cmd.ran) => (result.bind.st = "ok" /\ cmd.bound)]_vars

\* struct { Name; P *Child (nil); Addr }: the bind walk returned the
\* nil-pointer error, the read walk ran after it, and the command was neither
\* bound to viper nor executed
C28_Witness ==
    /\ v0.typ = "PtrNil"
    /\ result.bind.st = "error"
    /\ result.bind.err = Err("NilPointer", <<"P">>)
    /\ result.read.st # "none"
    /\ ~cmd.bound
    /\ cmd.ran = <<>>

====
